---- MODULE Spec2Model ----
(***************************************************************************)
(* TLSTransport (src/index.js): a JSON-RPC transport over a TLS socket.    *)
(* The transport's private data (socket, connected, error, buffer), the    *)
(* EventEmitter listeners of 'connected' and 'disconnected', the queue of  *)
(* setImmediate callbacks, the destroy timers and the promises returned by *)
(* connect(), disconnect() and send() are the state.  The tls.TLSSocket is *)
(* the environment: it raises secureConnect, timeout, error, close and     *)
(* data, and completes writes.                                             *)
(***************************************************************************)
EXTENDS Integers, Sequences, FiniteSets, TLC

\* ------------------------------------------------------------- bounds
\* What one behaviour of Spec may do: the calls made (connect, disconnect,
\* send, and the disconnect() made by onSocketTimeout) plus the characters
\* received.
MaxOps == 3
\* Characters the socket may deliver in one behaviour of DataSpec.
MaxStream == 6

\* A behaviour creates at most one handle per call.
Handles == 1..MaxOps
Calls == 1..MaxOps

\* ------------------------------------------------------------- values
LF == "\n"
\* The characters of the inbound stream: two digits, a character that
\* belongs to no JSON value, and the line terminator.
Chars == {"0", "1", "x", LF}

\* Error objects.  h is the handle whose event created the object (0: none).
NoError == [kind |-> "none", h |-> 0]
ConnectionFailed == [kind |-> "ConnectionFailed", h |-> 0]
InProgress == [kind |-> "InProgress", h |-> 0]
InvalidData == [kind |-> "TypeError", h |-> 0]
DisconnectedError == [kind |-> "DisconnectedError", h |-> 0]
SyntaxError == [kind |-> "SyntaxError", h |-> 0]
\* What the executor of send() would throw on socket.write with a null socket.
NullSocket == [kind |-> "NullSocket", h |-> 0]
TimedOut(h) == [kind |-> "TimedOut", h |-> h]
SocketError(h) == [kind |-> "SocketError", h |-> h]

\* The arguments send() is called with.
Payloads ==
  { [type |-> "undefined", str |-> <<>>],
    [type |-> "number", str |-> <<>>],
    [type |-> "string", str |-> <<>>],
    [type |-> "string", str |-> <<"1">>] }

\* check.nonEmptyString without the length test.
nonEmptyString_AcceptsEmpty(p) == p.type = "string"

\* check.nonEmptyString
nonEmptyString(p) == p.type = "string" /\ Len(p.str) > 0

NoPromise == [op |-> "none", st |-> "none", reason |-> NoError, h |-> 0,
              overlapped |-> FALSE]
NoReturn == [op |-> "none", st |-> "none", reason |-> NoError]
NoSocket == [phase |-> "unused", secure |-> FALSE, ended |-> FALSE, forced |-> FALSE,
             start |-> 0]
NoWrite == [st |-> "none", h |-> 0, frame |-> <<>>, doomed |-> FALSE]

VARIABLES
  socket,        \* data.socket: 0 is null, else the handle
  connected,     \* data.connected
  error,         \* data.error
  buffer,        \* data.buffer: [defined, str]; absent until the first chunk
  lConnected,    \* listeners of 'connected': the connect() calls, in order
  lDisconnected, \* listeners of 'disconnected': [fn, call], in order
  imm,           \* the setImmediate queue: emits not yet made
  timer,         \* destroyTimeout of each disconnect() call: the handle, 0 unarmed
  prom,          \* the promise of each call that returned it pending
  last,          \* the promise of the latest call that returned it settled
  writes,        \* the socket.write of each send() call
  sock,          \* each tls.TLSSocket the transport created
  nHandles,      \* handles created so far
  nCalls,        \* calls made so far that returned a pending promise
  nOps,          \* calls made so far
  stream,        \* history: the characters received so far
  delivered,     \* history: the data and error emits made so far
  dcount,        \* history: 'disconnected' emits made for each handle's close
  timedOut       \* history: the handles that raised timeout

vars == <<socket, connected, error, buffer, lConnected, lDisconnected, imm,
          timer, prom, last, writes, sock, nHandles, nCalls, nOps, stream,
          delivered, dcount, timedOut>>

\* ------------------------------------------------------------- promises
\* resolve() and reject() settle a promise once; later calls are ignored.
Settle(p, st, reason) ==
  IF p.st = "pending" THEN [p EXCEPT !.st = st, !.reason = reason] ELSE p

\* ------------------------------------------------------------- constructor
Init ==
  /\ socket = 0
  /\ connected = FALSE
  /\ error = NoError
  /\ buffer = [defined |-> FALSE, str |-> <<>>]
  /\ lConnected = <<>>
  /\ lDisconnected = <<>>
  /\ imm = <<>>
  /\ timer = [c \in Calls |-> 0]
  /\ prom = [c \in Calls |-> NoPromise]
  /\ last = NoReturn
  /\ writes = [c \in Calls |-> NoWrite]
  /\ sock = [h \in Handles |-> NoSocket]
  /\ nHandles = 0
  /\ nCalls = 0
  /\ nOps = 0
  /\ stream = <<>>
  /\ delivered = <<>>
  /\ dcount = [h \in Handles |-> 0]
  /\ timedOut = {}

\* ------------------------------------------------------------- helpers
Range(s) == {s[i] : i \in 1..Len(s)}

\* An entry of the setImmediate queue: this.emit.bind(this, ev, ...).
\* h is the handle whose socket event scheduled it.
Emit(ev, err, msg, h) == [ev |-> ev, err |-> err, msg |-> msg, h |-> h]

\* The behaviour may make one more call or receive one more character.
CanDo == nOps + Len(stream) < MaxOps

\* ------------------------------------------------------------- createSocket
\* tls.connect(options): a new socket, connecting, with the five handlers
\* bound to the transport.  start is history: the characters received before
\* the socket was created.
createSocket(h) == [sock EXCEPT ![h] = [phase |-> "open", secure |-> FALSE,
                                        ended |-> FALSE, forced |-> FALSE,
                                        start |-> Len(stream)]]

\* ------------------------------------------------------------- connect()
\* A promise that its executor settled before the call returned.
Returned(op, st, reason) == [op |-> op, st |-> st, reason |-> reason]

\* A promise that the call left pending, with the handle it created (connect)
\* or acts on (disconnect, send).
Pending(op, h) == [op |-> op, st |-> "pending", reason |-> NoError, h |-> h,
                   overlapped |-> FALSE]

\* connect() without the test of data.connected.
connectWithHandle_NoConnectedCheck(isConnected) ==
  Returned("connect", "rejected", InProgress)

\* What connect() returns when a handle exists.
connectWithHandle(isConnected) ==
  IF isConnected
  THEN Returned("connect", "resolved", NoError)
  ELSE Returned("connect", "rejected", InProgress)

\* connect() without the test of data.socket: it always creates a handle.
connect_AlwaysCreates ==
  /\ CanDo
  /\ nOps' = nOps + 1
  /\ LET c == nCalls + 1 IN
     /\ lConnected' = Append(lConnected, c)
     /\ lDisconnected' = Append(lDisconnected, [fn |-> "connect", call |-> c])
     /\ prom' = [prom EXCEPT ![c] = Pending("connect", nHandles + 1)]
  /\ connected' = FALSE
  /\ socket' = nHandles + 1
  /\ sock' = createSocket(nHandles + 1)
  /\ nHandles' = nHandles + 1
  /\ nCalls' = nCalls + 1
  /\ UNCHANGED <<last, timedOut, error, buffer, imm, timer, writes, stream,
                 delivered, dcount>>

connect ==
  /\ CanDo
  /\ nOps' = nOps + 1
  /\ IF socket # 0
     THEN /\ last' = connectWithHandle(connected)
          \* history: the pending connect() of the current handle saw a second call
          /\ prom' = [c \in Calls |->
                 IF ~connected /\ prom[c].op = "connect" /\ prom[c].h = socket
                    /\ prom[c].st = "pending"
                 THEN [prom[c] EXCEPT !.overlapped = TRUE] ELSE prom[c]]
          /\ UNCHANGED <<socket, connected, lConnected, lDisconnected, sock,
                         nHandles, nCalls>>
     ELSE /\ LET c == nCalls + 1 IN
             /\ lConnected' = Append(lConnected, c)
             /\ lDisconnected' = Append(lDisconnected, [fn |-> "connect", call |-> c])
             /\ prom' = [prom EXCEPT ![c] = Pending("connect", nHandles + 1)]
          /\ connected' = FALSE
          /\ socket' = nHandles + 1
          /\ sock' = createSocket(nHandles + 1)
          /\ nHandles' = nHandles + 1
          /\ nCalls' = nCalls + 1
          /\ UNCHANGED last
  /\ UNCHANGED <<timedOut, error, buffer, imm, timer, writes, stream, delivered, dcount>>

\* ------------------------------------------------------------- disconnect()
\* disconnect() without the test of socket.
disconnectBody_NoHandleCheck ==
  /\ CanDo
  /\ nOps' = nOps + 1
  /\ LET c == nCalls + 1 IN
     /\ timer' = [timer EXCEPT ![c] = socket]
     /\ lDisconnected' = Append(lDisconnected, [fn |-> "disconnect", call |-> c])
     /\ prom' = [prom EXCEPT ![c] = Pending("disconnect", socket)]
  /\ sock' = IF socket = 0 THEN sock ELSE [sock EXCEPT ![socket].ended = TRUE]
  /\ nCalls' = nCalls + 1
  /\ UNCHANGED last

\* The body of disconnect(), which onSocketTimeout runs too.
disconnectBody ==
  /\ CanDo
  /\ nOps' = nOps + 1
  /\ IF socket = 0
     THEN /\ last' = Returned("disconnect", "resolved", NoError)
          /\ UNCHANGED <<timer, lDisconnected, sock, prom, nCalls>>
     ELSE /\ LET c == nCalls + 1 IN
             /\ timer' = [timer EXCEPT ![c] = socket]
             /\ lDisconnected' = Append(lDisconnected,
                                        [fn |-> "disconnect", call |-> c])
             /\ prom' = [prom EXCEPT ![c] = Pending("disconnect", socket)]
          /\ sock' = [sock EXCEPT ![socket].ended = TRUE]
          /\ nCalls' = nCalls + 1
          /\ UNCHANGED last

disconnect ==
  /\ disconnectBody
  /\ UNCHANGED <<timedOut, socket, connected, error, buffer, lConnected, imm, writes,
                 nHandles, stream, delivered, dcount>>

\* ------------------------------------------------------------- send(data)
send(p) ==
  /\ CanDo
  /\ nOps' = nOps + 1
  /\ IF ~nonEmptyString(p)
     THEN /\ last' = Returned("send", "rejected", InvalidData)
          /\ UNCHANGED <<prom, writes, nCalls>>
     ELSE IF ~connected
     THEN /\ last' = Returned("send", "rejected", DisconnectedError)
          /\ UNCHANGED <<prom, writes, nCalls>>
     ELSE IF socket = 0
     THEN \* socket.write on null throws inside the executor: the promise rejects
          /\ last' = Returned("send", "rejected", NullSocket)
          /\ UNCHANGED <<prom, writes, nCalls>>
     ELSE /\ LET c == nCalls + 1 IN
             /\ prom' = [prom EXCEPT ![c] = Pending("send", socket)]
             /\ writes' = [writes EXCEPT ![c] =
                   [st |-> "pending", h |-> socket, frame |-> Append(p.str, LF),
                    doomed |-> sock[socket].ended \/ sock[socket].phase # "open"]]
          /\ nCalls' = nCalls + 1
          /\ UNCHANGED last
  /\ UNCHANGED <<timedOut, socket, connected, error, buffer, lConnected, lDisconnected, imm,
                 timer, sock, nHandles, stream, delivered, dcount>>

\* The write callback of send(): () => { resolve(); }.  The stream calls it
\* when the frame was flushed, and with an error when the write failed; the
\* callback ignores its argument.
writeCallback(c, ok) ==
  /\ writes[c].st = "pending"
  /\ ok => (~writes[c].doomed /\ sock[writes[c].h].phase = "open")
  /\ writes' = [writes EXCEPT ![c].st = IF ok THEN "flushed" ELSE "failed"]
  /\ prom' = [prom EXCEPT ![c] = Settle(prom[c], "resolved", NoError)]
  /\ UNCHANGED <<timedOut, last, nOps, socket, connected, error, buffer, lConnected, lDisconnected, imm,
                 timer, sock, nHandles, nCalls, stream, delivered, dcount>>

\* ------------------------------------------------------------- socket events
\* The socket raises events while it is neither destroyed nor closed; a
\* destroyed socket raises close and nothing else.
Live(h) == sock[h].phase = "open"

\* 'secureConnect' without the assignment data.connected = true.
onSocketSecureConnect_StaysDisconnected(h) ==
  /\ Live(h) /\ ~sock[h].secure
  /\ sock' = [sock EXCEPT ![h].secure = TRUE]
  /\ error' = NoError
  /\ imm' = Append(imm, Emit("connected", NoError, 0, h))
  /\ UNCHANGED <<connected, timedOut, last, nOps, socket, buffer, lConnected,
                 lDisconnected, timer, prom, writes, nHandles, nCalls, stream,
                 delivered, dcount>>

\* 'secureConnect': the handshake of handle h succeeded.
onSocketSecureConnect(h) ==
  /\ Live(h) /\ ~sock[h].secure
  /\ sock' = [sock EXCEPT ![h].secure = TRUE]
  /\ error' = NoError
  /\ connected' = TRUE
  /\ imm' = Append(imm, Emit("connected", NoError, 0, h))
  /\ UNCHANGED <<timedOut, last, nOps, socket, buffer, lConnected, lDisconnected, timer, prom, writes,
                 nHandles, nCalls, stream, delivered, dcount>>

\* 'timeout': handle h was idle.
onSocketTimeout(h) ==
  /\ Live(h)
  /\ error' = TimedOut(h)
  /\ disconnectBody
  /\ timedOut' = timedOut \cup {h}
  /\ UNCHANGED <<socket, connected, buffer, lConnected, imm, writes,
                 nHandles, stream, delivered, dcount>>

\* 'error': handle h failed; the stream destroys itself with the error.
onSocketError(h) ==
  /\ Live(h)
  /\ sock' = [sock EXCEPT ![h].phase = "closing"]
  /\ error' = SocketError(h)
  /\ UNCHANGED <<timedOut, last, nOps, socket, connected, buffer, lConnected, lDisconnected, imm, timer,
                 prom, writes, nHandles, nCalls, stream, delivered, dcount>>

\* 'close' with the 'disconnected' emit made inside the handler instead of
\* through setImmediate: the listeners run before the handler returns.
onSocketClose_EmitsNow(h) ==
  /\ sock[h].phase \in {"open", "closing"}
  /\ sock' = [sock EXCEPT ![h].phase = "closed"]
  /\ error' = NoError
  /\ socket' = 0
  /\ connected' = FALSE
  /\ prom' = [c \in Calls |->
         IF [fn |-> "connect", call |-> c] \in Range(lDisconnected)
         THEN Settle(prom[c], "rejected",
                     IF error # NoError THEN error ELSE ConnectionFailed)
         ELSE IF [fn |-> "disconnect", call |-> c] \in Range(lDisconnected)
         THEN Settle(prom[c], "resolved", NoError)
         ELSE prom[c]]
  /\ timer' = [c \in Calls |->
         IF [fn |-> "disconnect", call |-> c] \in Range(lDisconnected)
         THEN 0 ELSE timer[c]]
  /\ lConnected' = SelectSeq(lConnected,
         LAMBDA c : [fn |-> "connect", call |-> c] \notin Range(lDisconnected))
  /\ lDisconnected' = <<>>
  /\ dcount' = [dcount EXCEPT ![h] = @ + 1]
  /\ UNCHANGED <<timedOut, last, nOps, buffer, imm, writes, nHandles, nCalls,
                 stream, delivered>>

\* 'close' without the assignment data.error = null.
onSocketClose_KeepsError(h) ==
  /\ sock[h].phase \in {"open", "closing"}
  /\ sock' = [sock EXCEPT ![h].phase = "closed"]
  /\ socket' = 0
  /\ connected' = FALSE
  /\ imm' = Append(imm, Emit("disconnected", error, 0, h))
  /\ UNCHANGED <<error, timedOut, last, nOps, buffer, lConnected, lDisconnected,
                 timer, prom, writes, nHandles, nCalls, stream, delivered,
                 dcount>>

\* 'close' with its emit put at the head of the setImmediate queue.
onSocketClose_EmitsFirst(h) ==
  /\ sock[h].phase \in {"open", "closing"}
  /\ sock' = [sock EXCEPT ![h].phase = "closed"]
  /\ error' = NoError
  /\ socket' = 0
  /\ connected' = FALSE
  /\ imm' = <<Emit("disconnected", error, 0, h)>> \o imm
  /\ UNCHANGED <<timedOut, last, nOps, buffer, lConnected, lDisconnected, timer,
                 prom, writes, nHandles, nCalls, stream, delivered, dcount>>

\* 'close': handle h is closed (by the peer, after an error or after destroy).
onSocketClose(h) ==
  /\ sock[h].phase \in {"open", "closing"}
  /\ sock' = [sock EXCEPT ![h].phase = "closed"]
  /\ error' = NoError
  /\ socket' = 0
  /\ connected' = FALSE
  /\ imm' = Append(imm, Emit("disconnected", error, 0, h))
  /\ UNCHANGED <<timedOut, last, nOps, buffer, lConnected, lDisconnected, timer, prom, writes,
                 nHandles, nCalls, stream, delivered, dcount>>

\* destroyTimeout fires: socket.destroy() on the handle disconnect() bound.
\* destroy() on a socket already destroyed or closed does nothing.
destroyTimeout(c) ==
  /\ timer[c] # 0
  /\ timer' = [timer EXCEPT ![c] = 0]
  /\ sock' = IF Live(timer[c])
             THEN [sock EXCEPT ![timer[c]].phase = "closing", ![timer[c]].forced = TRUE]
             ELSE sock
  /\ UNCHANGED <<timedOut, last, nOps, socket, connected, error, buffer, lConnected, lDisconnected, imm,
                 prom, writes, nHandles, nCalls, stream, delivered, dcount>>

\* ------------------------------------------------------------- JSON.parse
IsDigit(ch) == ch \in {"0", "1"}

RECURSIVE DecVal(_)
DecVal(s) ==
  IF Len(s) = 0 THEN 0
  ELSE 10 * DecVal(SubSeq(s, 1, Len(s) - 1)) + (IF s[Len(s)] = "1" THEN 1 ELSE 0)

\* JSON.parse of a text over Chars: a JSON number is 0, or a nonzero digit
\* followed by digits; any other text throws SyntaxError.  The result is the
\* parsed value (a number), undefined when JSON.parse threw.
JSONParse(text) ==
  IF /\ Len(text) > 0
     /\ \A i \in 1..Len(text) : IsDigit(text[i])
     /\ (Len(text) = 1 \/ text[1] # "0")
  THEN [ok |-> TRUE, val |-> DecVal(text)]
  ELSE [ok |-> FALSE, val |-> 0]

\* The truthiness of `message` after the try block: undefined when
\* JSON.parse threw, else the parsed value.
Truthy(r) == r.ok /\ r.val # 0

\* ------------------------------------------------------------- onSocketData
\* buffer.indexOf('\n'), 1-based; 0 when absent.
indexOf(s, ch) ==
  IF \E i \in 1..Len(s) : s[i] = ch
  THEN CHOOSE i \in 1..Len(s) : s[i] = ch /\ \A j \in 1..(i - 1) : s[j] # ch
  ELSE 0

\* The while loop of onSocketData: the emits it schedules, in order, and
\* the buffer it leaves.
RECURSIVE drain(_, _, _)
drain(buf, out, h) ==
  LET delimiter == indexOf(buf, LF) IN
  IF delimiter = 0 THEN [buf |-> buf, out |-> out]
  ELSE LET message == JSONParse(SubSeq(buf, 1, delimiter - 1))
           out1 == IF message.ok THEN out
                   ELSE Append(out, Emit("error", SyntaxError, 0, h))
           out2 == IF Truthy(message)
                   THEN Append(out1, Emit("data", NoError, message.val, h))
                   ELSE out1
       IN drain(SubSeq(buf, delimiter + 1, Len(buf)), out2, h)

\* 'data': handle h received a chunk (decoded as utf8 by setEncoding).
onSocketData(h, chunk) ==
  /\ Live(h) /\ sock[h].secure
  /\ LET r == drain((IF buffer.defined THEN buffer.str ELSE <<>>) \o chunk, <<>>, h) IN
     /\ buffer' = [defined |-> TRUE, str |-> r.buf]
     /\ imm' = imm \o r.out
  /\ stream' = stream \o chunk
  /\ UNCHANGED <<timedOut, last, nOps, socket, connected, error, lConnected, lDisconnected, timer, prom,
                 writes, sock, nHandles, nCalls, delivered, dcount>>

\* emit with an onConnected that leaves onDisconnected registered.
emit_ConnectedKeepsListener ==
  /\ imm # <<>>
  /\ imm' = Tail(imm)
  /\ LET e == Head(imm) IN
     IF e.ev = "connected"
     THEN \* onConnected of each connect(): resolve
          /\ prom' = [c \in Calls |->
                 IF c \in Range(lConnected)
                 THEN Settle(prom[c], "resolved", NoError) ELSE prom[c]]
          /\ lConnected' = <<>>
          /\ UNCHANGED <<lDisconnected, timer, delivered, dcount>>
     ELSE IF e.ev = "disconnected"
     THEN \* onDisconnected of each connect(): remove onConnected, reject;
          \* onDisconnected of each disconnect(): clearTimeout, resolve
          /\ prom' = [c \in Calls |->
                 IF [fn |-> "connect", call |-> c] \in Range(lDisconnected)
                 THEN Settle(prom[c], "rejected",
                             IF e.err # NoError THEN e.err ELSE ConnectionFailed)
                 ELSE IF [fn |-> "disconnect", call |-> c] \in Range(lDisconnected)
                 THEN Settle(prom[c], "resolved", NoError)
                 ELSE prom[c]]
          /\ timer' = [c \in Calls |->
                 IF [fn |-> "disconnect", call |-> c] \in Range(lDisconnected)
                 THEN 0 ELSE timer[c]]
          /\ lConnected' = SelectSeq(lConnected,
                 LAMBDA c : [fn |-> "connect", call |-> c] \notin Range(lDisconnected))
          /\ lDisconnected' = <<>>
          /\ dcount' = [dcount EXCEPT ![e.h] = @ + 1]
          /\ UNCHANGED delivered
     ELSE \* 'data' and 'error' have the consumer's listeners only
          /\ delivered' = Append(delivered, e)
          /\ UNCHANGED <<prom, timer, lConnected, lDisconnected, dcount>>
  /\ UNCHANGED <<timedOut, last, nOps, socket, connected, error, buffer, writes, sock, nHandles, nCalls,
                 stream>>

\* ------------------------------------------------------------- emit
\* The head of the setImmediate queue runs: this.emit(ev, ...).  Every
\* listener here was registered with once(), so emit removes it and calls it.
\* The listeners of one emit settle different promises and clear different
\* timers, so their order within the emit has no effect.
emit ==
  /\ imm # <<>>
  /\ imm' = Tail(imm)
  /\ LET e == Head(imm) IN
     IF e.ev = "connected"
     THEN \* onConnected of each connect(): remove onDisconnected, resolve
          /\ prom' = [c \in Calls |->
                 IF c \in Range(lConnected)
                 THEN Settle(prom[c], "resolved", NoError) ELSE prom[c]]
          /\ lDisconnected' = SelectSeq(lDisconnected,
                 LAMBDA l : ~(l.fn = "connect" /\ l.call \in Range(lConnected)))
          /\ lConnected' = <<>>
          /\ UNCHANGED <<timer, delivered, dcount>>
     ELSE IF e.ev = "disconnected"
     THEN \* onDisconnected of each connect(): remove onConnected, reject;
          \* onDisconnected of each disconnect(): clearTimeout, resolve
          /\ prom' = [c \in Calls |->
                 IF [fn |-> "connect", call |-> c] \in Range(lDisconnected)
                 THEN Settle(prom[c], "rejected",
                             IF e.err # NoError THEN e.err ELSE ConnectionFailed)
                 ELSE IF [fn |-> "disconnect", call |-> c] \in Range(lDisconnected)
                 THEN Settle(prom[c], "resolved", NoError)
                 ELSE prom[c]]
          /\ timer' = [c \in Calls |->
                 IF [fn |-> "disconnect", call |-> c] \in Range(lDisconnected)
                 THEN 0 ELSE timer[c]]
          /\ lConnected' = SelectSeq(lConnected,
                 LAMBDA c : [fn |-> "connect", call |-> c] \notin Range(lDisconnected))
          /\ lDisconnected' = <<>>
          /\ dcount' = [dcount EXCEPT ![e.h] = @ + 1]
          /\ UNCHANGED delivered
     ELSE \* 'data' and 'error' have the consumer's listeners only
          /\ delivered' = Append(delivered, e)
          /\ UNCHANGED <<prom, timer, lConnected, lDisconnected, dcount>>
  /\ UNCHANGED <<timedOut, last, nOps, socket, connected, error, buffer, writes, sock, nHandles, nCalls,
                 stream>>

\* ------------------------------------------------------------- specification
\* The chunks of at most n characters.
Chunks(n) == UNION {[1..k -> Chars] : k \in 1..n}

Next ==
  \/ connect
  \/ disconnect
  \/ \E p \in Payloads : send(p)
  \/ \E c \in Calls : writeCallback(c, TRUE)
  \/ \E c \in Calls : writeCallback(c, FALSE)
  \/ \E h \in Handles : onSocketSecureConnect(h)
  \/ \E h \in Handles : onSocketTimeout(h)
  \/ \E h \in Handles : onSocketError(h)
  \/ \E h \in Handles : onSocketClose(h)
  \/ \E h \in Handles : \E ch \in Chars : CanDo /\ onSocketData(h, <<ch>>)
  \/ \E c \in Calls : destroyTimeout(c)
  \/ emit

Spec == Init /\ [][Next]_vars

\* One session and its inbound stream: a single connect(), the handshake, the
\* chunks in every size, the close, and the deferred emits.
NextData ==
  \/ nOps = 0 /\ connect
  \/ \E h \in Handles : onSocketSecureConnect(h)
  \/ \E h \in Handles : \E chunk \in Chunks(MaxStream - Len(stream)) :
        onSocketData(h, chunk)
  \/ \E h \in Handles : onSocketClose(h)
  \/ emit

DataSpec == Init /\ [][NextData]_vars

\* Successive sessions and their inbound streams: connect(), the handshake,
\* the chunks in every size, the close, connect() again, and the deferred
\* emits.
NextSessions ==
  \/ connect
  \/ \E h \in Handles : onSocketSecureConnect(h)
  \/ \E h \in Handles : \E chunk \in Chunks(MaxOps - Len(stream)) :
        onSocketData(h, chunk)
  \/ \E h \in Handles : onSocketClose(h)
  \/ emit

SessionSpec == Init /\ [][NextSessions]_vars

\* The event loop runs every scheduled immediate and every armed timer, and
\* a destroyed socket raises close.  Nothing obliges the peer to answer.
FairSpec ==
  /\ Spec
  /\ WF_vars(emit)
  /\ \A c \in Calls : WF_vars(destroyTimeout(c))
  /\ \A h \in Handles : WF_vars(sock[h].phase = "closing" /\ onSocketClose(h))

\* ------------------------------------------------------------- claims
Idle == socket = 0 /\ ~connected

ConnectCalls == {c \in Calls : prom[c].op = "connect"}
DisconnectCalls == {c \in Calls : prom[c].op = "disconnect"}
SendCalls == {c \in Calls : prom[c].op = "send"}

\* The outcome of a connect() that created handle h follows the handshake of
\* h: resolved only after h's secureConnect, rejected only after h closed
\* without one, with the error recorded for h or 'Connection failed'.
FollowsHandshake(c) ==
  LET h == prom[c].h IN
  /\ prom[c].st = "resolved" => sock[h].secure
  /\ prom[c].st = "rejected" =>
        /\ sock[h].phase = "closed" /\ ~sock[h].secure
        /\ prom[c].reason \in {ConnectionFailed, SocketError(h), TimedOut(h)}

\* C1: in every reachable state, every connect() that created a handle is
\* pending, or resolved after the secureConnect of that handle, or rejected
\* after the close of that handle without a handshake, carrying the error
\* recorded for that handle or 'Connection failed'.
C1_ConnectFollowsItsHandle == \A c \in ConnectCalls : FollowsHandshake(c)

\* C2: a connect() that created a handle and saw a second connect() rejected
\* with 'Connection already in progress' while it was pending still resolves or
\* rejects according to the handshake of its handle.
C2_FirstConnectUnaffected ==
  \A c \in ConnectCalls : prom[c].overlapped => FollowsHandshake(c)

\* The part of C2 about the second call alone: it rejects with 'Connection
\* already in progress', creates no handle and registers no listener.
C2_SecondConnectRejected ==
  [][(connect /\ socket # 0 /\ ~connected) =>
        /\ last' = Returned("connect", "rejected", InProgress)
        /\ UNCHANGED <<socket, connected, error, buffer, lConnected, lDisconnected,
                       imm, timer, writes, sock, nHandles, nCalls>>]_vars

\* C3: connect() called while a handle exists and connected is true resolves
\* immediately, creates no handle, and leaves socket, connected, error, buffer
\* and the listeners unchanged.
C3_ConnectWhenConnected ==
  [][(connect /\ socket # 0 /\ connected) =>
        /\ last' = Returned("connect", "resolved", NoError)
        /\ UNCHANGED <<socket, connected, error, buffer, lConnected, lDisconnected,
                       imm, timer, prom, writes, sock, nHandles, nCalls>>]_vars

C3_Witness ==
  /\ last = Returned("connect", "resolved", NoError)
  /\ socket # 0 /\ connected

\* C4: for every disconnect() made with a live handle h: the handle is
\* half-closed; once the deadline is no longer armed the handle is closed or
\* force-destroyed; and the promise is resolved only after the disconnected
\* notification of h's close was delivered.
C4_DisconnectWaitsForItsClose ==
  \A c \in DisconnectCalls :
    LET h == prom[c].h IN
    /\ sock[h].ended
    /\ timer[c] = 0 => sock[h].phase # "open"
    /\ prom[c].st = "resolved" => (sock[h].phase = "closed" /\ dcount[h] > 0)
    /\ sock[h].forced => sock[h].phase # "open"

\* C5: after a disconnect() made with a live handle the transport eventually
\* is Idle (while the handle of the call is not closed, Idle is still to come)
\* and the promise is eventually resolved; it is never rejected.
C5_EventuallyIdle ==
  \A c \in Calls :
    /\ (prom[c].op = "disconnect" /\ sock[prom[c].h].phase # "closed") ~> Idle
    /\ (prom[c].op = "disconnect") ~> (prom[c].st = "resolved")
    /\ [](prom[c].op = "disconnect" => prom[c].st # "rejected")

\* C6: disconnect() called while no handle exists resolves immediately and
\* changes nothing: no deadline, no listener, no socket operation.
C6_DisconnectWhenIdle ==
  [][(disconnect /\ socket = 0) =>
        /\ last' = Returned("disconnect", "resolved", NoError)
        /\ UNCHANGED <<socket, connected, error, buffer, lConnected, lDisconnected,
                       imm, timer, prom, writes, sock, nHandles, nCalls>>]_vars

C6_Witness ==
  /\ last = Returned("disconnect", "resolved", NoError)
  /\ socket = 0 /\ nHandles > 0

\* A payload that is missing, empty or not textual.
Invalid(p) == p.type # "string" \/ p.str = <<>>

\* C7: send() with a missing, empty or non-textual payload rejects with
\* TypeError whatever the connection state; send() with a valid payload while
\* connected is false rejects with DisconnectedError; neither issues a write
\* nor changes the transport.
C7_SendRejections ==
  [][\A p \in Payloads :
        (send(p) /\ (Invalid(p) \/ ~connected)) =>
           /\ last' = Returned("send", "rejected",
                        IF Invalid(p) THEN InvalidData ELSE DisconnectedError)
           /\ UNCHANGED <<socket, connected, error, buffer, lConnected,
                          lDisconnected, imm, timer, prom, writes, sock, nHandles,
                          nCalls>>]_vars

C7_Witness ==
  /\ last = Returned("send", "rejected", InvalidData)
  /\ connected /\ socket # 0

\* C8: a send() whose write was issued is resolved only if the write was
\* flushed as one frame; when the write failed the promise is not resolved.
C8_SendResolvesOnlyIfFlushed ==
  \A c \in SendCalls : prom[c].st = "resolved" => writes[c].st = "flushed"

\* The complete lines of a stream, in order.
RECURSIVE Lines(_)
Lines(s) ==
  LET d == indexOf(s, LF) IN
  IF d = 0 THEN <<>>
  ELSE <<SubSeq(s, 1, d - 1)>> \o Lines(SubSeq(s, d + 1, Len(s)))

\* What a notification shows the consumer.
Shown(e) == <<e.ev, e.msg>>

\* The data and error notifications scheduled so far, delivered or not.
Notifications ==
  LET pending == SelectSeq(imm, LAMBDA e : e.ev \in {"data", "error"})
      all == delivered \o pending
  IN [i \in 1..Len(all) |-> Shown(all[i])]

\* The notification a complete line calls for.
Expected(line) ==
  IF JSONParse(line).ok THEN <<"data", JSONParse(line).val>> ELSE <<"error", 0>>

\* C9: whatever the chunks, the notifications are one per complete line of
\* the stream, in the order of the lines: data with the parsed value when the
\* line is a JSON value, error otherwise.
C9_OneNotificationPerLine ==
  LET ls == Lines(stream) IN
  Notifications = [i \in 1..Len(ls) |-> Expected(ls[i])]

\* C10: a stream of three lines, the second malformed and the others
\* well-formed, yields data(line1), error, data(line3) in that order,
\* whatever the chunks.
C10_MalformedBetweenWellFormed ==
  LET ls == Lines(stream) IN
  (/\ Len(ls) = 3 /\ stream[Len(stream)] = LF
   /\ JSONParse(ls[1]).ok /\ ~JSONParse(ls[2]).ok /\ JSONParse(ls[3]).ok)
  => Notifications = <<<<"data", JSONParse(ls[1]).val>>, <<"error", 0>>,
                       <<"data", JSONParse(ls[3]).val>>>>

\* The 'disconnected' emits scheduled for the close of handle h and not yet made.
PendingDisconnected(h) ==
  {i \in 1..Len(imm) : imm[i].ev = "disconnected" /\ imm[i].h = h}

\* C11: for every handle that raised timeout: its teardown was started (it is
\* half-closed), at most one disconnected notification is delivered for it,
\* exactly one is scheduled or delivered once it is closed, the notification
\* carries 'Connection timed out' whatever events followed the timeout, and
\* once it is closed it is no longer the transport's socket.
C11_TimeoutTeardown ==
  \A h \in timedOut :
    /\ sock[h].ended
    /\ dcount[h] <= 1
    /\ sock[h].phase = "closed" =>
          (socket # h /\ dcount[h] + Cardinality(PendingDisconnected(h)) = 1)
    /\ \A i \in PendingDisconnected(h) : imm[i].err = TimedOut(h)

\* A socket event handler ran: a handle closed, completed its handshake,
\* delivered characters or recorded an error.
HandlerStep ==
  \/ \E h \in Handles : sock[h].phase # "closed" /\ sock'[h].phase = "closed"
  \/ \E h \in Handles : ~sock[h].secure /\ sock'[h].secure
  \/ Len(stream') > Len(stream)
  \/ error' # error /\ error' # NoError

\* A listener ran: a data or error emit was made, a 'disconnected' emit was
\* made, a connect() or disconnect() promise was settled, or a listener of
\* 'connected' or 'disconnected' was consumed.
ListenerStep ==
  \/ delivered' # delivered
  \/ dcount' # dcount
  \/ \E c \in Calls : /\ prom[c].op \in {"connect", "disconnect"}
                      /\ prom[c].st = "pending"
                      /\ prom'[c].st # "pending"
  \/ Len(lConnected') < Len(lConnected)
  \/ Len(lDisconnected') < Len(lDisconnected)

\* C12: a step in which a socket event handler runs runs no listener and
\* only appends to the setImmediate queue; a step in which a listener runs
\* is the step that takes the head of the queue, and no handler runs in it.
C12_EmitsAreDeferred ==
  [][/\ HandlerStep =>
          /\ ~ListenerStep
          /\ Len(imm') >= Len(imm)
          /\ SubSeq(imm', 1, Len(imm)) = imm
     /\ ListenerStep =>
          /\ imm # <<>>
          /\ imm' = Tail(imm)
          /\ ~HandlerStep]_vars

\* A handle has closed and its 'disconnected' emit is scheduled while the
\* disconnect() that half-closed it is still pending with its listener.
C12_Witness ==
  \E c \in Calls :
    /\ prom[c].op = "disconnect"
    /\ prom[c].st = "pending"
    /\ sock[prom[c].h].phase = "closed"
    /\ PendingDisconnected(prom[c].h) # {}
    /\ [fn |-> "disconnect", call |-> c] \in Range(lDisconnected)

\* C13: whenever connected is true the current handle has completed its
\* handshake and its half-close has not been initiated (by disconnect() or by
\* a timeout).
C13_ConnectedUntilTeardownStarts ==
  connected => /\ socket # 0
               /\ sock[socket].secure
               /\ ~sock[socket].ended

\* The handles that were created and have not raised close.
LiveHandles == {h \in Handles : sock[h].phase \in {"open", "closing"}}

\* C14: after every step at most one handle is created and not closed, and it
\* is the one data.socket refers to; a step creates a handle only when
\* data.socket is null, and data.socket becomes null only in the step in
\* which the handle it refers to raises close.
C14_AtMostOneHandle ==
  [][/\ Cardinality(LiveHandles') <= 1
     /\ LiveHandles' = IF socket' = 0 THEN {} ELSE {socket'}
     /\ nHandles' # nHandles =>
          /\ socket = 0
          /\ LiveHandles = {}
          /\ socket' = nHandles'
     /\ (socket # 0 /\ socket' # socket) =>
          /\ socket' = 0
          /\ sock[socket].phase # "closed"
          /\ sock'[socket].phase = "closed"]_vars

\* A second handle exists after the first one was closed.
C14_Witness ==
  /\ nHandles = 2
  /\ sock[1].phase = "closed"
  /\ socket = 2
  /\ LiveHandles = {2}

\* C15: connected is true exactly when a handle exists, it has raised
\* secureConnect and it has not raised close.
C15_ConnectedIffSecureHandle ==
  connected <=> /\ socket # 0
                /\ sock[socket].secure
                /\ sock[socket].phase # "closed"

\* The transport is connected on its second handle, after the first closed.
C15_Witness ==
  /\ connected
  /\ socket = 2
  /\ sock[2].secure
  /\ sock[1].phase = "closed"

\* C16: after every step data.error is null when no handle exists and is
\* otherwise null or an error recorded for the current handle; the error of
\* every scheduled 'disconnected' emit is null or was recorded for the handle
\* whose close scheduled it; and a handshake clears whatever error was
\* recorded before it.
C16_ErrorStaysInItsSession ==
  [][/\ socket' = 0 => error' = NoError
     /\ error' # NoError => error'.h = socket'
     /\ \A i \in 1..Len(imm') :
          imm'[i].ev = "disconnected" =>
            (imm'[i].err = NoError \/ imm'[i].err.h = imm'[i].h)
     /\ \A h \in Handles :
          (~sock[h].secure /\ sock'[h].secure) => error' = NoError]_vars

\* Handle 1 timed out and closed with its error; handle 2 then closed and its
\* 'disconnected' emit carries no error.
C16_Witness ==
  /\ 1 \in timedOut
  /\ sock[1].phase = "closed"
  /\ sock[2].phase = "closed"
  /\ PendingDisconnected(2) # {}
  /\ \A i \in PendingDisconnected(2) : imm[i].err = NoError

\* C17: the setImmediate queue is first in, first out: a step either takes
\* its head or appends to it, a data or error emit made is the head, and a
\* 'disconnected' emit made for handle h is the head and the only one made for
\* h.  After every step the queue holds the emits in the order of the socket
\* events: by handle, and for one handle nothing behind its 'disconnected'
\* emit; nothing of a handle is queued once its 'disconnected' emit was made;
\* and a handle is closed exactly when one 'disconnected' emit is queued or
\* made for it.
C17_EmitsInEventOrder ==
  [][/\ imm' # imm =>
          \/ imm # <<>> /\ imm' = Tail(imm)
          \/ Len(imm') > Len(imm) /\ SubSeq(imm', 1, Len(imm)) = imm
     /\ delivered' # delivered =>
          imm # <<>> /\ delivered' = Append(delivered, Head(imm))
     /\ \A h \in Handles :
          dcount'[h] # dcount[h] =>
            /\ imm # <<>>
            /\ Head(imm) \in {Emit("disconnected", e, 0, h) :
                                e \in {NoError, TimedOut(h), SocketError(h)}}
            /\ dcount'[h] = 1
     /\ \A i, j \in 1..Len(imm') :
          i < j => /\ imm'[i].h <= imm'[j].h
                   /\ imm'[i].h = imm'[j].h => imm'[i].ev # "disconnected"
     /\ \A h \in Handles :
          /\ dcount'[h] = 1 => \A i \in 1..Len(imm') : imm'[i].h # h
          /\ sock'[h].phase = "closed" <=>
               dcount'[h] + Cardinality({i \in 1..Len(imm') :
                   imm'[i].ev = "disconnected" /\ imm'[i].h = h}) = 1]_vars

\* Handle 1 completed its handshake, received a line and closed; its data
\* emit was made, then its 'disconnected' emit.
C17_Witness ==
  /\ dcount[1] = 1
  /\ sock[1].secure
  /\ Len(delivered) = 1
  /\ delivered[1].ev = "data"
  /\ delivered[1].h = 1

\* C18: a settled connect() promise never changes again, and after every
\* step a settled connect() has neither its listener of 'connected' nor its
\* listener of 'disconnected' registered.
C18_ConnectSettlesOnceAndUnregisters ==
  [][\A c \in Calls :
       /\ (prom[c].op = "connect" /\ prom[c].st # "pending") =>
             prom'[c] = prom[c]
       /\ (prom'[c].op = "connect" /\ prom'[c].st # "pending") =>
             /\ c \notin Range(lConnected')
             /\ [fn |-> "connect", call |-> c] \notin Range(lDisconnected')]_vars

\* One connect() was resolved by a 'connected' emit and another was rejected
\* by a 'disconnected' emit.
C18_Witness ==
  \E c, d \in Calls :
    /\ prom[c].op = "connect" /\ prom[c].st = "resolved"
    /\ prom[d].op = "connect" /\ prom[d].st = "rejected"

\* The characters handle h received: from its creation to the creation of
\* the next handle.
SessionBytes(h) ==
  SubSeq(stream, sock[h].start + 1,
         IF h < nHandles THEN sock[h + 1].start ELSE Len(stream))

\* The data and error emits scheduled for handle h, made or not, in order.
SessionEmits(h) ==
  SelectSeq(delivered \o imm,
            LAMBDA e : e.h = h /\ e.ev \in {"data", "error"})

\* C19: the data and error emits of every handle are those that the framing
\* loop produces from the characters that handle received, starting from an
\* empty buffer: nothing received on an earlier handle takes part.
C19_FramingPerSession ==
  \A h \in 1..nHandles :
    SessionEmits(h) = drain(SessionBytes(h), <<>>, h).out

\* C20: in the step in which a pending connect() promise becomes resolved,
\* the transport is connected: a handle exists and data.connected is true.
C20_ResolvedConnectIsConnected ==
  [][\A c \in Calls :
       (prom[c].op = "connect" /\ prom[c].st = "pending"
          /\ prom'[c].st = "resolved")
       => (connected' /\ socket' # 0)]_vars

====
